---- MODULE Spec2Model ----
(***************************************************************************)
(* Foehn-effect dashboard (app.py).  The dashboard is a Streamlit script:  *)
(* every user event (a widget change, a button press) re-runs the script   *)
(* from top to bottom with the current widget values.  One action of this  *)
(* module is one such event, followed by the whole script run.             *)
(*                                                                         *)
(* Units.  Widget values keep the dashboard's units, scaled to integers:   *)
(*   pressures      hPa (number_input, integers)                           *)
(*   temperatures   tenths of a degree C   (slider step 0.5 -> step 5)     *)
(*   mixing ratio   hundredths of g/kg     (slider step 0.5 -> step 50)    *)
(* Computed quantities are fixed-point integers:                           *)
(*   pressures      dhPa  (0.1 hPa)                                        *)
(*   temperatures   mK    (0.001 K)                                        *)
(*   vapour press.  mhPa  (0.001 hPa)                                      *)
(*   mixing ratio / specific humidity   1e-5 kg/kg  (0.01 g/kg)            *)
(* The MetPy routines the script calls (lcl, moist_lapse, dry_lapse,       *)
(* dewpoint_from_specific_humidity, relative_humidity_from_dewpoint) are   *)
(* modelled by what they compute, integrated in integer arithmetic.        *)
(***************************************************************************)
EXTENDS Integers, Sequences, FiniteSets, TLC

VARIABLES
    location_preset,      \* selectbox, app.py:84
    north_pressure,       \* number_input, hPa
    north_temp,           \* slider, tenths of a degree C
    north_dewpoint,       \* slider, tenths of a degree C
    north_mixing_ratio,   \* slider, hundredths of g/kg
    summit_pressure,      \* number_input, hPa
    south_pressure,       \* number_input, hPa
    event,                \* the user event that triggered the last script run
    page                  \* what the last script run produced

widgets == << location_preset, north_pressure, north_temp, north_dewpoint,
              north_mixing_ratio, summit_pressure, south_pressure >>
vars == << location_preset, north_pressure, north_temp, north_dewpoint,
           north_mixing_ratio, summit_pressure, south_pressure, event, page >>

-----------------------------------------------------------------------------
(* Fixed-point helpers.                                                      *)
(* Throughout, CHOOSE r \in {F(x) : x \in {e}} : TRUE is "let x be the value *)
(* of e in F(x)": it binds x to a value that is computed once.               *)

\* a / b rounded to the nearest integer (b > 0)
RoundDiv(a, b) == (2 * a + b) \div (2 * b)

Min(a, b) == IF a <= b THEN a ELSE b
Abs(a) == IF a >= 0 THEN a ELSE 0 - a

\* numpy's nan, as produced by the dewpoint of a zero vapour pressure
NaN == -1

\* integration step of the lapse-rate integrations, dhPa
LapseStep == 100
\* resolution to which the LCL pressure is located, dhPa
LclStep == 5

\* 0 degrees C in mK
ZeroCelsius == 273150

\* tenths of a degree C -> mK   (value * units.degC)
Kelvin(t) == ZeroCelsius + 100 * t

\* hPa -> dhPa   (value * units.hPa)
HPa(p) == 10 * p

-----------------------------------------------------------------------------
(* Saturation vapour pressure (Bolton 1980, as MetPy):                      *)
(*   es(T) = 6.112 hPa * exp(17.67 (T - 273.15) / (T - 29.65))              *)
(* tabulated in mhPa for every whole degree from -100 C to 90 C and         *)
(* interpolated linearly in between.                                        *)

EsTable ==
  << 0, 0, 0, 0, 0, 0, 0, 0, 0, 0,
     0, 0, 0, 0, 0, 0, 1, 1, 1, 1,
     1, 1, 1, 2, 2, 2, 3, 3, 4, 4,
     5, 6, 6, 7, 9, 10, 11, 13, 15, 17,
     19, 21, 24, 28, 31, 35, 40, 45, 50, 57,
     64, 71, 80, 89, 100, 111, 124, 138, 154, 171,
     190, 210, 233, 258, 285, 315, 347, 383, 422, 464,
     510, 561, 615, 675, 739, 809, 885, 968, 1057, 1153,
     1257, 1370, 1492, 1623, 1764, 1916, 2080, 2256, 2446, 2649,
     2868, 3102, 3353, 3623, 3911, 4220, 4550, 4903, 5280, 5682,
     6112, 6570, 7058, 7578, 8132, 8721, 9348, 10014, 10722, 11474,
     12272, 13118, 14015, 14966, 15974, 17040, 18169, 19363, 20626, 21960,
     23369, 24858, 26428, 28085, 29833, 31674, 33615, 35659, 37810, 40074,
     42456, 44960, 47592, 50358, 53262, 56312, 59512, 62869, 66390, 70081,
     73949, 78001, 82244, 86686, 91335, 96198, 101283, 106600, 112156, 117961,
     124024, 130354, 136961, 143855, 151046, 158544, 166361, 174508, 182995, 191835,
     201039, 210620, 220591, 230964, 241752, 252969, 264630, 276747, 289336, 302412,
     315989, 330084, 344712, 359890, 375634, 391962, 408890, 426437, 444621, 463460,
     482973, 503180, 524100, 545754, 568162, 591345, 615325, 640123, 665762, 692265,
     719653 >>

\* the temperature of the first entry, mK, and the width of the table, mK
TableBase == ZeroCelsius - 1000 * 100
TableSpan == 1000 * (Len(EsTable) - 1)

\* mpcalc.saturation_vapor_pressure: T in mK -> es in mhPa
SaturationVaporPressure(T) ==
    LET c == T - TableBase
        i == c \div 1000
        f == c % 1000
    IN  IF c <= 0 THEN EsTable[1]
        ELSE IF c >= TableSpan THEN EsTable[Len(EsTable)]
        ELSE EsTable[i + 1] + RoundDiv((EsTable[i + 2] - EsTable[i + 1]) * f, 1000)

\* mpcalc.dewpoint: the inverse of es; e in mhPa -> Td in mK.
\* log(0) makes the dewpoint of a zero vapour pressure nan.
Dewpoint(e) ==
    IF e <= 0 THEN NaN
    ELSE IF e <= EsTable[1] THEN TableBase
    ELSE IF e >= EsTable[Len(EsTable)] THEN TableBase + TableSpan
    ELSE LET k == CHOOSE j \in 1..(Len(EsTable) - 1) :
                      EsTable[j] <= e /\ e < EsTable[j + 1]
         IN  TableBase + 1000 * (k - 1)
               + RoundDiv((e - EsTable[k]) * 1000, EsTable[k + 1] - EsTable[k])

-----------------------------------------------------------------------------
(* Dry adiabat: dT/dp = (Rd/cp) T / p, Rd/cp = 2/7                          *)

\* one step of dp (signed, dhPa) from (p, T), slope taken at the mid pressure
DryStep(p, T, dp) ==
    IF dp >= 0 THEN T + RoundDiv(4 * T * dp, 7 * (2 * p + dp))
    ELSE T - RoundDiv(4 * T * (0 - dp), 7 * (2 * p + dp))

\* the signed step from p towards target, at most LapseStep long
StepTowards(p, target) ==
    IF target >= p THEN Min(LapseStep, target - p)
    ELSE 0 - Min(LapseStep, p - target)

\* the parcel s = [p, T] after one dry step towards p1
DryNext(s, p1) ==
    CHOOSE n \in { [p |-> s.p + dp, T |-> DryStep(s.p, s.T, dp)]
                   : dp \in {StepTowards(s.p, p1)} } : TRUE

RECURSIVE DryIterate(_, _)
DryIterate(s, p1) ==
    IF s.p = p1 THEN s.T
    ELSE CHOOSE T \in {DryIterate(n, q) : n \in {DryNext(s, p1)}, q \in {p1}} : TRUE

\* mpcalc.dry_lapse(pressures, T0)[-1]: temperature at p1 of a parcel
\* taken dry-adiabatically from (p0, T0)
DryLapse(p0, T0, p1) == DryIterate([p |-> p0, T |-> T0], p1)

-----------------------------------------------------------------------------
(* Saturated adiabat, as MetPy's moist_lapse:                               *)
(*   dT/dp = (1/p) (Rd T + Lv rs) / (cp + Lv^2 rs eps / (Rd T^2))           *)
(*         = (Rd/cp) (T/p) (1 + A) / (1 + B),                               *)
(*   A = (Lv/Rd) rs / T,  B = (Lv^2 eps / (cp Rd)) rs / T^2,                *)
(*   rs = eps es / (p - es).                                                *)

\* mpcalc.saturation_mixing_ratio: p dhPa, T mK -> 1e-5 kg/kg
SaturationMixingRatio(p, T) ==
    LET e == SaturationVaporPressure(T)
    IN  (622 * e) \div (p - (e \div 100))

\* |dT| in mK over a step of dpabs dhPa whose mid pressure is pm2 / 2, with
\* the moist factor (1 + A) / (1 + B) evaluated at (p, T); A and B are scaled
\* by 10^4 and B = A (Lv eps / cp) / T.
MoistSlope(p, T, dpabs, pm2) ==
    CHOOSE k \in
      { RoundDiv(RoundDiv(4 * T * dpabs, 7 * pm2) * (10000 + A),
                 10000 + (A * 15482) \div (T \div 100))
        : A \in {(87123 * SaturationMixingRatio(p, T)) \div (T \div 10)} } : TRUE

\* one midpoint (second-order Runge-Kutta) step of dp from (p, T)
MoistStep(p, T, dp) ==
    CHOOSE T2 \in
      { IF dp >= 0
        THEN T + MoistSlope(p + (dp \div 2), T + (k1 \div 2), dp, 2 * p + dp)
        ELSE T - MoistSlope(p + (dp \div 2), T - (k1 \div 2), 0 - dp, 2 * p + dp)
        : k1 \in {MoistSlope(p, T, Abs(dp), 2 * p + dp)} } : TRUE

\* the parcel s = [p, T] after one saturated step towards p1
MoistNext(s, p1) ==
    CHOOSE n \in { [p |-> s.p + dp, T |-> MoistStep(s.p, s.T, dp)]
                   : dp \in {StepTowards(s.p, p1)} } : TRUE

RECURSIVE MoistIterate(_, _)
MoistIterate(s, p1) ==
    IF s.p = p1 THEN s.T
    ELSE CHOOSE T \in {MoistIterate(n, q) : n \in {MoistNext(s, p1)}, q \in {p1}} : TRUE

\* mpcalc.moist_lapse(pressures, T0, p0)[-1]: temperature at p1 of a
\* saturated parcel taken from (p0, T0)
MoistLapse(p0, T0, p1) == MoistIterate([p |-> p0, T |-> T0], p1)

-----------------------------------------------------------------------------
(* Lifting condensation level: the parcel rises dry-adiabatically with its *)
(* vapour pressure falling in proportion to the pressure, until it is      *)
(* saturated.                                                              *)

\* is the parcel lifted from p0 (vapour pressure e0 there) saturated at (p, T)?
Saturated(p0, e0, p, T) == SaturationVaporPressure(T) * p0 <= e0 * p

\* lowest pressure the search goes to, dhPa
MinPressure == 10

\* the parcel s = [p, T] lifted dry-adiabatically by dp
Lifted(s, dp) == [p |-> s.p - dp, T |-> DryStep(s.p, s.T, 0 - dp)]

\* from s, unsaturated, in steps of LclStep: the first saturated level,
\* which lies at or before pstop
RECURSIVE LclFine(_, _, _, _)
LclFine(p0, e0, s, pstop) ==
    CHOOSE r \in
      { IF Saturated(p0, e0, n.p, n.T) \/ n.p = pstop
        THEN [pressure |-> n.p, temperature |-> n.T]
        ELSE LclFine(p0, e0, n, pstop)
        : n \in {Lifted(s, Min(LclStep, s.p - pstop))} } : TRUE

\* from s, unsaturated, in steps of LapseStep: the step in which the parcel
\* saturates, then LclFine inside that step
RECURSIVE LclCoarse(_, _, _)
LclCoarse(p0, e0, s) ==
    IF s.p <= MinPressure THEN [pressure |-> s.p, temperature |-> s.T]
    ELSE CHOOSE r \in
      { IF Saturated(p0, e0, n.p, n.T) THEN LclFine(p0, e0, s, n.p)
        ELSE LclCoarse(p0, e0, n)
        : n \in {Lifted(s, Min(LapseStep, s.p - MinPressure))} } : TRUE

\* mpcalc.lcl(pressure, temperature, dewpoint): p dhPa, T and Td mK
Lcl(p, T, Td) ==
    CHOOSE r \in
      { IF Saturated(p, e0, p, T) THEN [pressure |-> p, temperature |-> T]
        ELSE LclCoarse(p, e0, [p |-> p, T |-> T])
        : e0 \in {SaturationVaporPressure(Td)} } : TRUE

-----------------------------------------------------------------------------
(* Humidity conversions of the leeward dewpoint (app.py:209-214) *)

\* mpcalc.specific_humidity_from_mixing_ratio: q = w / (1 + w), 1e-5 kg/kg
SpecificHumidityFromMixingRatio(w) == RoundDiv(w * 100000, 100000 + w)

\* mpcalc.dewpoint_from_specific_humidity(pressure, temperature, q):
\* the dewpoint of the vapour pressure e = p w / (eps + w), w = q / (1 - q),
\* that is e = p q / (eps (1 - q) + q); p dhPa, q 1e-5 kg/kg -> mK.
\* The temperature does not enter the result.
DewpointFromSpecificHumidity(p, T, q) ==
    Dewpoint((p * 100 * q) \div (62196 - ((62196 * q) \div 100000) + q))

\* mpcalc.relative_humidity_from_dewpoint(T, Td).to('percent'): es(Td) / es(T),
\* in tenths of a percent; nan for a nan dewpoint
RelativeHumidityFromDewpoint(T, Td) ==
    IF Td = NaN THEN NaN
    ELSE (SaturationVaporPressure(Td) * 1000) \div SaturationVaporPressure(T)

-----------------------------------------------------------------------------
(* The sidebar widgets (app.py:83-148) *)

Presets == {"Madeira Island (Default)", "Custom Parameters"}

\* default_values of the selected preset (app.py:91-100)
DefaultValues(preset) ==
    IF preset = "Madeira Island (Default)"
    THEN [north_p |-> 1000, north_t |-> 200, north_td |-> 105,
          north_mr |-> 800, summit_p |-> 400, south_p |-> 1000]
    ELSE [north_p |-> 1013, north_t |-> 180, north_td |-> 120,
          north_mr |-> 900, summit_p |-> 500, south_p |-> 1013]

\* the ranges the widgets allow (min_value .. max_value, in steps of step)
NorthPressureRange == 900..1050
NorthTempRange == {5 * k : k \in (0 - 20)..80}
NorthDewpointRange == {5 * k : k \in (0 - 40)..60}
NorthMixingRatioRange == {50 * k : k \in 0..40}
SummitPressureRange == 300..800
SouthPressureRange == 900..1050

\* the values of each widget the model explores: the defaults of the two
\* presets, and slider values that make the dry, the cold, the saturated
\* (dewpoint = temperature) and the dewpoint-above-temperature cases
NorthPressureValues == {1000, 1013}
NorthTempValues == {0 - 100, 180, 200, 400}
NorthDewpointValues == {0 - 200, 105, 120, 200, 300}
NorthMixingRatioValues == {0, 800, 900}
SummitPressureValues == {400, 500, 800}
SouthPressureValues == {1000, 1013}

\* argument values for the script body taken as a function of its six
\* inputs, not confined to the widget ranges
EngineNorthPressureValues == {1000, 1013}
EngineNorthTempValues == {200}
EngineNorthDewpointValues == {105, 300}
EngineNorthMixingRatioValues == {0, 800}
EngineSummitPressureValues == {400, 950, 1000, 1013, 1050}
EngineSouthPressureValues == {900, 1000, 1013}

-----------------------------------------------------------------------------
(* The script body below the widgets (app.py:150-447) *)

\* Validation without the dewpoint check
ValidationDewpointUnchecked(np, nt, ntd, sp) ==
    IF sp >= np THEN "WARNING: Summit pressure must be less than surface pressure"
    ELSE ""

\* Validation with the summit check written sp > np
ValidationSummitStrict(np, nt, ntd, sp) ==
    IF ntd > nt THEN "WARNING: Dewpoint cannot exceed temperature"
    ELSE IF sp > np THEN "WARNING: Summit pressure must be less than surface pressure"
    ELSE ""

\* Validation, app.py:150-157: the sidebar error that stops the script, or ""
Validation(np, nt, ntd, sp) ==
    IF ntd > nt THEN "WARNING: Dewpoint cannot exceed temperature"
    ELSE IF sp >= np THEN "WARNING: Summit pressure must be less than surface pressure"
    ELSE ""

\* summit_mixing_ratio with no moisture lost
SummitMixingRatioNoLoss(nmr) == nmr

\* app.py:193, summit_mixing_ratio = north_mixing_ratio * 0.5  (0.01 g/kg)
SummitMixingRatio(nmr) == (nmr * 5) \div 10

\* lcl_descent_pressure with a floor division, (summit + south) // 2
LclDescentPressureFloor(sp, so) == ((sp + so) \div 2) * 10

\* app.py:197, lcl_descent_pressure = (summit_pressure + south_pressure) / 2,
\* a true division of two integers, in dhPa
LclDescentPressure(sp, so) == ((sp + so) * 10) \div 2

\* The thermodynamic chain, app.py:179-214.  Each stage is one assignment of
\* the script: it takes the values assigned so far (r, bound to their value)
\* and adds its own.

\* app.py:180-184, lcl_pressure, lcl_temp = mpcalc.lcl(...)
AscentLcl(np, nt, ntd) ==
    CHOOSE r \in { [lcl_pressure |-> lcl.pressure, lcl_temp |-> lcl.temperature]
                   : lcl \in {Lcl(HPa(np), Kelvin(nt), Kelvin(ntd))} } : TRUE

\* app.py:187-190, summit_temp_calc = moist_lapse(lcl -> summit)[-1]
MoistAscent(sp, r0) ==
    CHOOSE x \in { [summit_temp_calc |->
                      MoistLapse(r.lcl_pressure, r.lcl_temp, HPa(sp))] @@ r
                   : r \in {r0} } : TRUE

\* the moist descent started from the LCL temperature
MoistDescentFromLcl(nmr, sp, so, r0) ==
    CHOOSE x \in { [summit_mixing_ratio  |-> SummitMixingRatio(nmr),
                    lcl_descent_pressure |-> LclDescentPressure(sp, so),
                    lcl_descent_temp     |->
                      MoistLapse(HPa(sp), r.lcl_temp,
                                 LclDescentPressure(sp, so))] @@ r
                   : r \in {r0} } : TRUE

\* app.py:197-201, lcl_descent_pressure and
\* lcl_descent_temp = moist_lapse(summit -> lcl_descent_pressure)[-1]
MoistDescent(nmr, sp, so, r0) ==
    CHOOSE x \in { [summit_mixing_ratio  |-> SummitMixingRatio(nmr),
                    lcl_descent_pressure |-> LclDescentPressure(sp, so),
                    lcl_descent_temp     |->
                      MoistLapse(HPa(sp), r.summit_temp_calc,
                                 LclDescentPressure(sp, so))] @@ r
                   : r \in {r0} } : TRUE

\* app.py:204-207, south_temp_calc = dry_lapse(lcl_descent_pressure -> south)[-1]
DryDescent(so, r0) ==
    CHOOSE x \in { [south_temp_calc |->
                      DryLapse(r.lcl_descent_pressure, r.lcl_descent_temp, HPa(so))] @@ r
                   : r \in {r0} } : TRUE

\* app.py:210-214, south_dewpoint_calc
LeewardDewpoint(so, r0) ==
    CHOOSE x \in { [south_dewpoint_calc |->
                      DewpointFromSpecificHumidity(HPa(so), r.south_temp_calc,
                          SpecificHumidityFromMixingRatio(r.summit_mixing_ratio))] @@ r
                   : r \in {r0} } : TRUE

Profile(np, nt, ntd, nmr, sp, so) ==
    LeewardDewpoint(so,
      DryDescent(so,
        MoistDescent(nmr, sp, so,
          MoistAscent(sp,
            AscentLcl(np, nt, ntd)))))

\* the inputs the model explores that pass the validation
ExploredInputs ==
    { in \in (NorthPressureValues \X NorthTempValues \X NorthDewpointValues
               \X NorthMixingRatioValues \X SummitPressureValues
               \X SouthPressureValues)
             \cup
             (EngineNorthPressureValues \X EngineNorthTempValues
               \X EngineNorthDewpointValues \X EngineNorthMixingRatioValues
               \X EngineSummitPressureValues \X EngineSouthPressureValues) :
        Validation(in[1], in[2], in[3], in[5]) = "" }

\* Profile is a function of its six inputs alone: it is tabulated over the
\* explored inputs (as an explicit function, each entry computed once), and
\* a script run reads its profile from the table.
ProfileTable ==
    [in \in ExploredInputs |-> Profile(in[1], in[2], in[3], in[4], in[5], in[6])]
      @@ [in \in {} |-> 0]

ProfileOf(np, nt, ntd, nmr, sp, so) == ProfileTable[<< np, nt, ntd, nmr, sp, so >>]

\* the MetPy calls of the chain, in the order the script makes them
ChainCalls == << "lcl", "moist_lapse", "moist_lapse", "dry_lapse",
                 "specific_humidity_from_mixing_ratio",
                 "dewpoint_from_specific_humidity" >>

\* app.py:216-243, plot_observation_point
Points(np, nt, sp, so, pr) ==
    << [pressure |-> HPa(np), temperature |-> Kelvin(nt), label |-> "Windward Surface"],
       [pressure |-> pr.lcl_pressure, temperature |-> pr.lcl_temp, label |-> "LCL (Cloud Base)"],
       [pressure |-> HPa(sp), temperature |-> pr.summit_temp_calc, label |-> "Summit"],
       [pressure |-> HPa(so), temperature |-> pr.south_temp_calc,
        label |-> "Leeward Surface (Foehn)"] >>

\* app.py:245-278, plot_adiabatic_process
Segments(np, nt, sp, so, pr) ==
    << [start_pressure |-> HPa(np), end_pressure |-> pr.lcl_pressure,
        start_temp |-> Kelvin(nt), process_type |-> "dry", label |-> "Dry Ascent"],
       [start_pressure |-> pr.lcl_pressure, end_pressure |-> HPa(sp),
        start_temp |-> pr.lcl_temp, process_type |-> "moist",
        label |-> "Moist Ascent (Precipitation)"],
       [start_pressure |-> HPa(sp), end_pressure |-> pr.lcl_descent_pressure,
        start_temp |-> pr.summit_temp_calc, process_type |-> "moist",
        label |-> "Moist Descent"],
       [start_pressure |-> pr.lcl_descent_pressure, end_pressure |-> HPa(so),
        start_temp |-> pr.lcl_descent_temp, process_type |-> "dry",
        label |-> "Dry Descent (Foehn)"] >>

\* the difference taken the other way round, windward minus leeward
TempIncreaseReversed(nt, pr) == 100 * nt - (pr.south_temp_calc - ZeroCelsius)

\* app.py:293, temp_increase = south_temp_calc.to('degC').m - north_temp  (mK)
TempIncrease(nt, pr) == (pr.south_temp_calc - ZeroCelsius) - 100 * nt

\* app.py:299, moisture_loss = north_mixing_ratio - summit_mixing_ratio
MoistureLoss(nmr, pr) == nmr - pr.summit_mixing_ratio

\* app.py:325, f"{(moisture_loss/north_mixing_ratio)*100:.0f}% lost";
\* only evaluated for north_mixing_ratio # 0
MoistureLossPercent(loss, nmr) == RoundDiv(loss * 100, nmr)

\* app.py:302-320, the three metrics displayed before the moisture metric
FirstMetrics(nt, pr) ==
    << [label |-> "Temperature Change", value |-> TempIncrease(nt, pr)],
       [label |-> "Final Temperature", value |-> pr.south_temp_calc],
       [label |-> "Relative Humidity",
        value |-> RelativeHumidityFromDewpoint(pr.south_temp_calc,
                                               pr.south_dewpoint_calc)] >>

\* app.py:322-327, the "Moisture Loss" metric
MoistureMetric(nmr, pr) ==
    [label |-> "Moisture Loss", value |-> MoistureLoss(nmr, pr),
     delta |-> MoistureLossPercent(MoistureLoss(nmr, pr), nmr)]

\* app.py:359-373, the two risk banners
RiskBanners(nt, pr) ==
    LET ti == TempIncrease(nt, pr)
        rh == RelativeHumidityFromDewpoint(pr.south_temp_calc, pr.south_dewpoint_calc)
    IN  << IF ti > 15000 THEN "EXTREME RISK"
           ELSE IF ti > 10000 THEN "HIGH RISK"
           ELSE IF ti > 5000 THEN "MODERATE"
           ELSE "LOW RISK",
           IF rh # NaN /\ rh < 200 THEN "EXTREME DRYNESS"
           ELSE IF rh # NaN /\ rh < 300 THEN "VERY DRY"
           ELSE "Normal humidity levels" >>

\* app.py:381-447, the downloads the export section offers
Downloads(download_plot, export_csv) ==
    (IF download_plot THEN << "foehn_analysis.png" >> ELSE << >>)
    \o << "foehn_report.txt" >>
    \o (IF export_csv THEN << "foehn_data.csv" >> ELSE << >>)

\* what a script run leaves on the page when st.stop() ends it at the validation
StoppedPage(message, analyze_button) ==
    [analyze_button |-> analyze_button, sidebar_error |-> message,
     outcome |-> "stopped", exception |-> "", calls |-> << >>, profile |-> << >>,
     points |-> << >>, segments |-> << >>, metrics |-> << >>, banners |-> << >>,
     downloads |-> << >>]

\* app.py:159-447 with the profile pr computed: the page of a run that
\* passed the validation.  The script raises ZeroDivisionError at app.py:325
\* when north_mixing_ratio is 0, after the plot and three metrics are shown.
PageOf(np, nt, nmr, sp, so, analyze_button, download_plot, export_csv, pr) ==
    [analyze_button |-> analyze_button,
     sidebar_error  |-> "",
     outcome        |-> IF nmr = 0 THEN "exception" ELSE "complete",
     exception      |-> IF nmr = 0 THEN "ZeroDivisionError" ELSE "",
     calls          |-> ChainCalls \o << "relative_humidity_from_dewpoint" >>,
     profile        |-> << pr >>,
     points         |-> Points(np, nt, sp, so, pr),
     segments       |-> Segments(np, nt, sp, so, pr),
     metrics        |-> IF nmr = 0 THEN FirstMetrics(nt, pr)
                        ELSE FirstMetrics(nt, pr) \o << MoistureMetric(nmr, pr) >>,
     banners        |-> IF nmr = 0 THEN << >> ELSE RiskBanners(nt, pr),
     downloads      |-> IF nmr = 0 THEN << >>
                        ELSE Downloads(download_plot, export_csv)]

\* One run of the script body with the given widget values and button states.
\* analyze_button is assigned at app.py:148 and read nowhere.
ScriptRun(np, nt, ntd, nmr, sp, so, analyze_button, download_plot, export_csv) ==
    IF Validation(np, nt, ntd, sp) # ""
    THEN StoppedPage(Validation(np, nt, ntd, sp), analyze_button)
    ELSE CHOOSE pg \in
           { PageOf(np, nt, nmr, sp, so, analyze_button, download_plot, export_csv, pr)
             : pr \in {ProfileOf(np, nt, ntd, nmr, sp, so)} } : TRUE

-----------------------------------------------------------------------------
(* The dashboard: one action per user event, each followed by a script run *)

\* the script run that follows an event, on the new widget values
Rerun(ev, analyze_button, download_plot, export_csv) ==
    /\ event' = ev
    /\ page' = ScriptRun(north_pressure', north_temp', north_dewpoint',
                         north_mixing_ratio', summit_pressure', south_pressure',
                         analyze_button, download_plot, export_csv)

\* the widgets take the default_values of the preset
SetDefaults(preset) ==
    LET d == DefaultValues(preset)
    IN  /\ location_preset' = preset
        /\ north_pressure' = d.north_p
        /\ north_temp' = d.north_t
        /\ north_dewpoint' = d.north_td
        /\ north_mixing_ratio' = d.north_mr
        /\ summit_pressure' = d.summit_p
        /\ south_pressure' = d.south_p

\* first load of the page: the first option of the selectbox, its defaults
Init ==
    /\ location_preset = "Madeira Island (Default)"
    /\ north_pressure = 1000
    /\ north_temp = 200
    /\ north_dewpoint = 105
    /\ north_mixing_ratio = 800
    /\ summit_pressure = 400
    /\ south_pressure = 1000
    /\ event = "load"
    /\ page = ScriptRun(1000, 200, 105, 800, 400, 1000, FALSE, FALSE, FALSE)

\* the user picks the other preset: the widgets are rebuilt with its defaults
SelectPreset ==
    \E preset \in Presets \ {location_preset} :
        /\ SetDefaults(preset)
        /\ Rerun("preset", FALSE, FALSE, FALSE)

SetNorthPressure ==
    \E v \in (NorthPressureValues \cap NorthPressureRange) \ {north_pressure} :
        /\ north_pressure' = v
        /\ UNCHANGED << location_preset, north_temp, north_dewpoint,
                        north_mixing_ratio, summit_pressure, south_pressure >>
        /\ Rerun("parameter", FALSE, FALSE, FALSE)

SetNorthTemp ==
    \E v \in (NorthTempValues \cap NorthTempRange) \ {north_temp} :
        /\ north_temp' = v
        /\ UNCHANGED << location_preset, north_pressure, north_dewpoint,
                        north_mixing_ratio, summit_pressure, south_pressure >>
        /\ Rerun("parameter", FALSE, FALSE, FALSE)

SetNorthDewpoint ==
    \E v \in (NorthDewpointValues \cap NorthDewpointRange) \ {north_dewpoint} :
        /\ north_dewpoint' = v
        /\ UNCHANGED << location_preset, north_pressure, north_temp,
                        north_mixing_ratio, summit_pressure, south_pressure >>
        /\ Rerun("parameter", FALSE, FALSE, FALSE)

SetNorthMixingRatio ==
    \E v \in (NorthMixingRatioValues \cap NorthMixingRatioRange) \ {north_mixing_ratio} :
        /\ north_mixing_ratio' = v
        /\ UNCHANGED << location_preset, north_pressure, north_temp,
                        north_dewpoint, summit_pressure, south_pressure >>
        /\ Rerun("parameter", FALSE, FALSE, FALSE)

SetSummitPressure ==
    \E v \in (SummitPressureValues \cap SummitPressureRange) \ {summit_pressure} :
        /\ summit_pressure' = v
        /\ UNCHANGED << location_preset, north_pressure, north_temp,
                        north_dewpoint, north_mixing_ratio, south_pressure >>
        /\ Rerun("parameter", FALSE, FALSE, FALSE)

SetSouthPressure ==
    \E v \in (SouthPressureValues \cap SouthPressureRange) \ {south_pressure} :
        /\ south_pressure' = v
        /\ UNCHANGED << location_preset, north_pressure, north_temp,
                        north_dewpoint, north_mixing_ratio, summit_pressure >>
        /\ Rerun("parameter", FALSE, FALSE, FALSE)

\* the "Run Analysis" button: True for the one run its press triggers
PressRunAnalysis ==
    /\ UNCHANGED widgets
    /\ Rerun("run_analysis", TRUE, FALSE, FALSE)

\* the "Download Plot (PNG)" button; it exists only on a page the script finished
PressDownloadPlot ==
    /\ page.outcome = "complete"
    /\ UNCHANGED widgets
    /\ Rerun("download_plot", FALSE, TRUE, FALSE)

\* the "Export Data (CSV)" button
PressExportCSV ==
    /\ page.outcome = "complete"
    /\ UNCHANGED widgets
    /\ Rerun("export_csv", FALSE, FALSE, TRUE)

Next ==
    \/ SelectPreset
    \/ SetNorthPressure
    \/ SetNorthTemp
    \/ SetNorthDewpoint
    \/ SetNorthMixingRatio
    \/ SetSummitPressure
    \/ SetSouthPressure
    \/ PressRunAnalysis
    \/ PressDownloadPlot
    \/ PressExportCSV

Spec == Init /\ [][Next]_vars

-----------------------------------------------------------------------------
(* The script body (app.py:150-447) as a function of its six inputs: the   *)
(* inputs are drawn from the Engine... sets, then the body runs on them.   *)

\* nothing has run yet
IdlePage ==
    [analyze_button |-> FALSE, sidebar_error |-> "", outcome |-> "idle",
     exception |-> "", calls |-> << >>, profile |-> << >>, points |-> << >>,
     segments |-> << >>, metrics |-> << >>, banners |-> << >>, downloads |-> << >>]

InitEngine ==
    /\ location_preset = "Custom Parameters"
    /\ north_pressure \in EngineNorthPressureValues
    /\ north_temp \in EngineNorthTempValues
    /\ north_dewpoint \in EngineNorthDewpointValues
    /\ north_mixing_ratio \in EngineNorthMixingRatioValues
    /\ summit_pressure \in EngineSummitPressureValues
    /\ south_pressure \in EngineSouthPressureValues
    /\ event = "none"
    /\ page = IdlePage

RunBody ==
    /\ page.outcome = "idle"
    /\ UNCHANGED widgets
    /\ Rerun("call", FALSE, FALSE, FALSE)

NextEngine == RunBody

SpecEngine == InitEngine /\ [][NextEngine]_vars

-----------------------------------------------------------------------------
(* Properties *)

DewpointMessage == "WARNING: Dewpoint cannot exceed temperature"
SummitMessage == "WARNING: Summit pressure must be less than surface pressure"

\* the last script run computed a profile
ProfileProduced == page.profile # << >>
TheProfile == page.profile[1]

\* the last script run produced nothing: no call, profile, point, segment, metric
NothingProduced ==
    /\ page.calls = << >>
    /\ page.profile = << >>
    /\ page.points = << >>
    /\ page.segments = << >>
    /\ page.metrics = << >>

\* C1: with the windward dewpoint above the windward temperature the run
\* stops at the validation with the dewpoint error, before any MetPy call,
\* and leaves no profile, point, segment or metric.
C1_DewpointAboveTempStops ==
    north_dewpoint > north_temp =>
        /\ page.outcome = "stopped"
        /\ page.sidebar_error = DewpointMessage
        /\ NothingProduced

C1_Witness ==
    /\ north_dewpoint > north_temp
    /\ event = "run_analysis"
    /\ page.outcome = "stopped"

\* C2: when the body has run on inputs with summit_pressure >= north_pressure
\* (equality included), it stopped with an input error and computed no
\* profile; the error is the summit one unless the dewpoint check came first.
C2_SummitNotBelowNorthStops ==
    (page.outcome # "idle" /\ summit_pressure >= north_pressure) =>
        /\ page.outcome = "stopped"
        /\ page.sidebar_error =
             (IF north_dewpoint > north_temp THEN DewpointMessage ELSE SummitMessage)
        /\ NothingProduced

C2_Witness ==
    /\ summit_pressure = north_pressure
    /\ north_dewpoint <= north_temp
    /\ page.outcome = "stopped"
    /\ page.sidebar_error = SummitMessage

C4_ZeroMixingRatioGuarded ==
    north_mixing_ratio = 0 =>
        /\ page.outcome = "stopped"
        /\ page.sidebar_error # ""
        /\ page.exception # "ZeroDivisionError"

\* C5: the thermodynamic chain runs only in response to a press of
\* "Run Analysis": a run triggered by a parameter or preset change makes no
\* MetPy call and computes no profile.
C5_ChainRunsOnlyOnRunAnalysis ==
    event \in {"parameter", "preset"} => (page.calls = << >> /\ ~ProfileProduced)

\* C6: the chain is computed in the order LCL, moist ascent, leeward LCL,
\* moist descent, dry descent, and the four segments are connected: the
\* first starts at the windward pressure and temperature, each later one
\* starts at the end pressure of the one before and at the temperature the
\* chain computed there (for the two moist segments, the temperature the
\* segment before reaches at its end pressure), and the last ends at the
\* leeward pressure, where it reaches the leeward temperature.
C6_SegmentsConnected ==
    ProfileProduced =>
        LET sg == page.segments
            pr == TheProfile
        IN  /\ SubSeq(page.calls, 1, 4)
                 = << "lcl", "moist_lapse", "moist_lapse", "dry_lapse" >>
            /\ Len(sg) = 4
            /\ sg[1].start_pressure = HPa(north_pressure)
            /\ sg[1].start_temp = Kelvin(north_temp)
            /\ \A i \in 1..3 : sg[i + 1].start_pressure = sg[i].end_pressure
            /\ sg[1].end_pressure = pr.lcl_pressure
            /\ sg[2].start_temp = pr.lcl_temp
            /\ sg[3].start_temp
                 = MoistLapse(sg[2].start_pressure, sg[2].start_temp, sg[2].end_pressure)
            /\ sg[4].start_temp
                 = MoistLapse(sg[3].start_pressure, sg[3].start_temp, sg[3].end_pressure)
            /\ sg[4].end_pressure = HPa(south_pressure)
            /\ pr.south_temp_calc
                 = DryLapse(sg[4].start_pressure, sg[4].start_temp, sg[4].end_pressure)

C6_Witness ==
    /\ event = "run_analysis"
    /\ page.outcome = "complete"
    /\ Len(page.segments) = 4
    /\ page.segments[3].start_temp = TheProfile.summit_temp_calc
    /\ TheProfile.summit_temp_calc # TheProfile.lcl_temp

\* C7: for every accepted input the ascent LCL pressure lies strictly
\* between the summit pressure and the windward surface pressure.
C7_LclBetweenSummitAndSurface ==
    ProfileProduced =>
        /\ HPa(summit_pressure) < TheProfile.lcl_pressure
        /\ TheProfile.lcl_pressure < HPa(north_pressure)

\* C8: the leeward LCL pressure is exactly the midpoint of the summit and
\* leeward pressures; with summit_pressure < south_pressure it lies strictly
\* between them, and the moist and the dry descent both end at a pressure
\* strictly above the one they start at.
C8_LeewardLclIsMidpoint ==
    ProfileProduced =>
        LET sg == page.segments
            pr == TheProfile
        IN  /\ 2 * pr.lcl_descent_pressure = HPa(summit_pressure) + HPa(south_pressure)
            /\ summit_pressure < south_pressure =>
                 /\ HPa(summit_pressure) < pr.lcl_descent_pressure
                 /\ pr.lcl_descent_pressure < HPa(south_pressure)
                 /\ sg[3].start_pressure = HPa(summit_pressure)
                 /\ sg[3].end_pressure = pr.lcl_descent_pressure
                 /\ sg[3].end_pressure > sg[3].start_pressure
                 /\ sg[4].start_pressure = pr.lcl_descent_pressure
                 /\ sg[4].end_pressure > sg[4].start_pressure

\* an input whose midpoint is not a whole number of hPa
C8_Witness ==
    /\ ProfileProduced
    /\ summit_pressure < south_pressure
    /\ (summit_pressure + south_pressure) % 2 = 1
    /\ TheProfile.lcl_descent_pressure % 10 = 5

\* C9: the summit mixing ratio is exactly half the windward one; the reported
\* moisture loss is windward minus summit, never negative, and reported as
\* 50% for every non-zero windward mixing ratio; the leeward dewpoint is
\* derived from the summit mixing ratio, not from the windward one.
C9_HalfTheMoistureIsLost ==
    ProfileProduced =>
        LET pr == TheProfile
        IN  /\ 2 * pr.summit_mixing_ratio = north_mixing_ratio
            /\ pr.south_dewpoint_calc
                 = DewpointFromSpecificHumidity(HPa(south_pressure), pr.south_temp_calc,
                       SpecificHumidityFromMixingRatio(pr.summit_mixing_ratio))
            /\ north_mixing_ratio # 0 =>
                 /\ pr.south_dewpoint_calc
                      # DewpointFromSpecificHumidity(HPa(south_pressure),
                            pr.south_temp_calc,
                            SpecificHumidityFromMixingRatio(north_mixing_ratio))
                 /\ Len(page.metrics) = 4
                 /\ page.metrics[4].label = "Moisture Loss"
                 /\ page.metrics[4].value = north_mixing_ratio - pr.summit_mixing_ratio
                 /\ page.metrics[4].value >= 0
                 /\ page.metrics[4].delta = 50

C9_Witness ==
    /\ page.outcome = "complete"
    /\ north_mixing_ratio = 900
    /\ TheProfile.summit_mixing_ratio = 450
    /\ page.metrics[4].delta = 50

\* C10: dewpoint <= temperature at every point of every produced profile,
\* the leeward surface point included, and the final relative humidity is
\* never above 100%.
C10_DewpointNeverAboveTemperature ==
    (ProfileProduced /\ north_mixing_ratio # 0) =>
        /\ north_dewpoint <= north_temp
        /\ TheProfile.south_dewpoint_calc <= TheProfile.south_temp_calc
        /\ page.metrics[3].value <= 1000

\* the temperature increase the script reports for the current widget values
\* with the summit pressure replaced by sp
TempIncreaseAtSummit(sp) ==
    TempIncrease(north_temp,
                 ProfileOf(north_pressure, north_temp, north_dewpoint,
                           north_mixing_ratio, sp, south_pressure))

\* C11: monotonicity in summit height: of two accepted inputs that differ
\* only in summit_pressure, the one with the lower summit pressure yields a
\* temperature increase (leeward minus windward temperature) greater than or
\* equal to that of the other; the reported "Temperature Change" is that
\* difference.
C11_HigherSummitWarmsMore ==
    ProfileProduced =>
        /\ page.metrics[1].label = "Temperature Change"
        /\ page.metrics[1].value
             = (TheProfile.south_temp_calc - ZeroCelsius) - 100 * north_temp
        /\ page.metrics[1].value = TempIncreaseAtSummit(summit_pressure)
        /\ \A sp \in SummitPressureValues :
             (sp < summit_pressure
                /\ Validation(north_pressure, north_temp, north_dewpoint, sp) = "")
               => TempIncreaseAtSummit(sp) >= page.metrics[1].value

\* a run with the lowest explored mountain, which every higher one
\* strictly out-warms
C11_Witness ==
    /\ ProfileProduced
    /\ summit_pressure = 800
    /\ \A sp \in SummitPressureValues \ {800} :
         TempIncreaseAtSummit(sp) > page.metrics[1].value
    /\ TempIncreaseAtSummit(400) > TempIncreaseAtSummit(500)

====
